---- MODULE Spec2Model ----
(***************************************************************************)
(* Session resource lifecycle of data_chat_bot.py: one Chainlit session,   *)
(* its handlers on_chat_start / on_message, the single-flight              *)
(* get_or_create_agent() and the docker runtime it drives, the janitor     *)
(* sweep of the first chat start, and the streaming of an answer with its  *)
(* content filter and error classification.                                *)
(*                                                                         *)
(* Scheduling: asyncio, one event loop.  A task runs from one await to the *)
(* next without interruption.  subprocess.run() is a blocking call: the    *)
(* loop is held while it runs, but the docker runtime is another process   *)
(* and may change between two such calls.                                  *)
(***************************************************************************)
EXTENDS Integers, Sequences, FiniteSets, TLC

VARIABLES
    pc,                  \* per task: position in handler / get_or_create_agent
    call,                \* per task: number of get_or_create_agent calls made
    waited,              \* per task: local `waited` of the wait loop
    loc,                 \* per task: locals of the construction sequence
    ret,                 \* per task: how its last get_or_create_agent call ended
    sent,                \* per task: outbound cl.Message kinds, in order
    initializing,        \* cl.user_session['initializing']
    agent,               \* cl.user_session['agent']            (0 = None)
    stdio_ctx,           \* cl.user_session['stdio_ctx']        (0 = None)
    session_ctx,         \* cl.user_session['session_ctx']      (0 = None)
    mcp_container_name,  \* cl.user_session['mcp_container_name'] (<<>> = None)
    running,             \* docker: names of running containers
    exited,              \* docker: names of stopped containers (kept, no --rm)
    lastTs,              \* last value read from time.time()*1000 (0 = none yet)
    stdioOpen,           \* stdio_client contexts entered and not exited
    sessOpen,            \* ClientSession contexts entered and not exited
    halted,              \* docker: <<name, status>> of containers neither up nor exited
    nConstr,             \* construction sequences started so far
    stream,              \* per task: locals of on_message's streaming block
    cleanup_done,        \* hasattr(on_chat_start, '_cleanup_done')
    sweeps,              \* calls of cleanup_old_containers so far
    jlist,               \* cleanup_old_containers: lines of the listing still to visit
    swept,               \* what the sweep in progress listed, visited and asked to remove
    live,                \* the handler invocations that take place
    faulty,              \* whether the runtime may fail or change under us
    agentTalks,          \* whether the agent's stream yields events
    agentFails,          \* whether the agent's stream may raise
    theirs,              \* docker: running containers of other live sessions
    ended                \* whether the session's UI connection has ended

vars == <<pc, call, waited, loc, ret, sent, initializing, agent, stdio_ctx,
          session_ctx, mcp_container_name, running, exited, lastTs,
          stdioOpen, sessOpen, halted, nConstr, stream, cleanup_done, sweeps,
          jlist, swept, live, faulty, agentTalks, agentFails, theirs, ended>>

sessVars == <<initializing, agent, stdio_ctx, session_ctx, mcp_container_name>>
entryVars == <<agent, stdio_ctx, session_ctx>>
rtVars == <<running, exited, lastTs, halted>>
connVars == <<stdioOpen, sessOpen>>
janVars == <<cleanup_done, sweeps, jlist, swept>>
workVars == <<live, faulty, agentTalks, agentFails>>
lifeVars == <<theirs, ended>>

----------------------------------------------------------------------------
\* Bounds of the model.

\* Handler invocations of the session: task 1 is on_chat_start, the others
\* are on_message invocations.  NumTasks of them run against a runtime that
\* may fail at every call (Spec), NumConc of them against a runtime whose
\* calls succeed (SpecConc).
NumTasks == 2
NumConc == 3

\* Largest millisecond timestamp the clock is followed to.
MaxClock == 3

\* Chat starts of other sessions of the process that are followed.
NumForeign == 2

\* Events the agent's stream is followed for, whatever they are.
MaxEvents == 3

SessionTasks == 1..(IF NumConc > NumTasks THEN NumConc ELSE NumTasks)

Foreign == {n + (IF NumConc > NumTasks THEN NumConc ELSE NumTasks) : n \in 1..NumForeign}

Tasks == SessionTasks \cup Foreign

\* Task 1 is the session's on_chat_start, the other session tasks are
\* on_message invocations; a foreign task is the on_chat_start of another
\* session, followed as far as it acts on what the process shares.
Kind(t) ==
    IF t = 1 THEN "chat_start"
    ELSE IF t \in Foreign THEN "foreign_start" ELSE "message"

----------------------------------------------------------------------------
\* Program constants.

max_wait_time == 30
wait_interval == 1
SidLen == 12

\* cl.context.session.id: an opaque id longer than the truncation length.
session_id == <<1, 2, 3, 4, 5, 6, 7, 8, 9, 1, 2, 3, 4, 5>>

\* None / empty string for a container name.
NoName == <<>>

\* f"firebolt-mcp-{session_id_short}"
BaseName == <<"firebolt-mcp-">> \o SubSeq(session_id, 1, SidLen)

\* The suffix is left out.
WithSuffix_Dropped(name, ts) == name

\* f"{container_name}-{int(time.time() * 1000)}"
WithSuffix(name, ts) == Append(name, ts)

IsPrefix(s, n) == Len(s) <= Len(n) /\ SubSeq(n, 1, Len(s)) = s

\* docker ps --filter name=X --format {{.Names}}, then `X in result.stdout`:
\* the filter and the test are substring matches over the running containers.
\* Every name starts with the prefix literal and timestamps have equal width,
\* so a substring match is a match of leading components.
PsFinds(x) == \E n \in running : IsPrefix(x, n)

\* Outcomes of a runtime call that can fail: TRUE = it took effect.
Outcomes == IF faulty THEN BOOLEAN ELSE {TRUE}

\* docker rm -f X: removes the container named exactly X, running or not.
RmRunning(x) == running \ {x}
RmExited(x) == exited \ {x}
RmHalted(x) == {h \in halted : h[1] # x}

\* The names the runtime holds, whatever the container's status.
InUse == running \cup exited \cup {h[1] : h \in halted}

----------------------------------------------------------------------------
\* Python str operations, on strings.

\* sub in s
Contains(sub, s) ==
    \E i \in 1..(Len(s) - Len(sub) + 1) : SubSeq(s, i, i + Len(sub) - 1) = sub

\* s.startswith(p)
StartsWith(s, p) == Len(p) <= Len(s) /\ SubSeq(s, 1, Len(p)) = p

\* s[:n]
Take(s, n) == SubSeq(s, 1, IF Len(s) < n THEN Len(s) ELSE n)

Whitespace == {" ", "\n", "\t"}

\* s.strip()
Strip(s) ==
    LET inked == {i \in 1..Len(s) : SubSeq(s, i, i) \notin Whitespace}
    IN  IF inked = {} THEN ""
        ELSE SubSeq(s, CHOOSE i \in inked : \A j \in inked : i <= j,
                       CHOOSE i \in inked : \A j \in inked : i >= j)

UpperCase == "ABCDEFGHIJKLMNOPQRSTUVWXYZ"
LowerCase == "abcdefghijklmnopqrstuvwxyz"

LowerChar(c) ==
    IF \E i \in 1..Len(UpperCase) : SubSeq(UpperCase, i, i) = c
    THEN LET i == CHOOSE i \in 1..Len(UpperCase) : SubSeq(UpperCase, i, i) = c
         IN  SubSeq(LowerCase, i, i)
    ELSE c

\* s.lower()
RECURSIVE Lower(_)
Lower(s) ==
    IF Len(s) = 0 THEN ""
    ELSE LowerChar(SubSeq(s, 1, 1)) \o Lower(SubSeq(s, 2, Len(s)))

\* s.split(' ', 2)[1] of a line "<name> <status> <created at>": the first
\* word of the status.
FirstWord(s) ==
    LET gaps == {i \in 1..Len(s) : SubSeq(s, i, i) = " "}
    IN  IF gaps = {} THEN s
        ELSE SubSeq(s, 1, (CHOOSE i \in gaps : \A j \in gaps : i <= j) - 1)

----------------------------------------------------------------------------
\* Records kept per task.

\* Locals of one construction sequence (lines 197-475).
\* viaWait: the call came to line 197 out of its wait loop.
NewLoc(c, viaWait) ==
    [cid |-> c, viaWait |-> viaWait, name |-> BaseName, existing |-> NoName, reused |-> FALSE,
     race |-> "unchecked", rmCalls |-> 0, runCalls |-> 0, spawned |-> FALSE,
     closed |-> FALSE, undo |-> {}]

IdleLoc == NewLoc(0, FALSE)

\* How a get_or_create_agent call ended: the exit path, the value of the
\* 'initializing' flag at that moment, the Agent returned (0 = none),
\* whether the call went through the wait loop, and
\* for a raise: the value of `waited` (TimeoutError), the step that raised,
\* whether the text holds "closed", and the undo steps attempted before
\* the exception left the function.
ExitRec(path, flag, ag, w, step, closed, undo, c, waiter) ==
    [path |-> path, flag |-> flag, agent |-> ag, waited |-> w, waiter |-> waiter,
     step |-> step, closed |-> closed, undo |-> undo, cid |-> c]

NoExit == ExitRec("none", FALSE, 0, 0, "none", FALSE, {}, 0, FALSE)

\* The event loop is held by a task that is between the flag being set and
\* the first await of the construction (blocking subprocess calls only).
SyncPcs == {"s_model", "s_reuse", "s_rmstale", "s_rm", "s_final"}

ConstructPcs == SyncPcs \cup {"a_stdio", "a_sess", "a_init", "a_undo1",
                              "a_undo2", "a_tools"}

\* cleanup_old_containers has no await either: its caller holds the loop
\* from the latch test to the latch being set.
HeldPcs == SyncPcs \cup {"j_sweep"}

LoopFree == \A u \in Tasks : pc[u] \notin HeldPcs

Constructing == {t \in Tasks : pc[t] \in ConstructPcs}

----------------------------------------------------------------------------
\* get_or_create_agent: entry, wait loop, exits.

\* The flag is not cleared.
FlagLeftSet == TRUE

\* finally: cl.user_session.set('initializing', False)
FlagAfterFinally == FALSE

\* The registered Agent is not looked at.
HasAgent_Never(ag) == FALSE

\* if agent:
HasAgent(ag) == ag # 0

\* The flag is not looked at.
InProgress_Unchecked(init) == FALSE

\* if cl.user_session.get('initializing'):
InProgress(init) == init

\* One poll too many.
LoopContinues_OffByOne(w) == w <= max_wait_time

\* while waited < max_wait_time
LoopContinues(w) == w < max_wait_time

\* The loop is left without the raise.
LoopTimedOut_Never(w) == FALSE

\* if waited >= max_wait_time: raise TimeoutError(...)
LoopTimedOut(w) == w >= max_wait_time

\* "closed" in str(TimeoutError("Agent initialization timed out after
\* waiting for another initialization to complete")).lower()
TimeoutTextHasClosed == FALSE

\* "Connection closed" in error_msg or "closed" in error_msg.lower()
ClosedText(error_msg) ==
    Contains("Connection closed", error_msg) \/ Contains("closed", Lower(error_msg))

\* on_message: "Connection closed" in error_msg or "closed" in error_msg.lower()
RetriesOn(t, closed) == Kind(t) = "message" /\ call[t] = 1 /\ closed

\* Whether the text of an exception holds "closed".  The text is read only
\* by on_message after its first call; elsewhere it is not followed.
ErrorTexts(t) ==
    IF Kind(t) = "message" /\ call[t] = 1 THEN BOOLEAN ELSE {FALSE}

\* The message sent when get_or_create_agent raised and is not retried.
ErrMsg(t) ==
    IF Kind(t) = "chat_start" THEN "init_error"
    ELSE IF call[t] = 1 THEN "init_failed" ELSE "conn_failed"

\* The handler's step once it holds the Agent: on_chat_start sends its
\* confirmation and ends; on_message goes on to stream the answer.
AfterAgent(t) == IF Kind(t) = "chat_start" THEN "done" ELSE "h_stream"

AgentMsgs(t) == IF Kind(t) = "chat_start" THEN <<"ready">> ELSE <<>>

\* Line 197 and the start of the try block: the flag is set and a new
\* construction sequence starts.  retNow / locNow / sentNow carry what the
\* caller has already written in the same uninterrupted run.
Begin(t, viaWait, retNow, locNow, sentNow) ==
    /\ initializing' = TRUE
    /\ pc' = [pc EXCEPT ![t] = "s_model"]
    /\ nConstr' = nConstr + 1
    /\ loc' = [locNow EXCEPT ![t] = NewLoc(nConstr + 1, viaWait)]
    /\ waited' = [waited EXCEPT ![t] = 0]
    /\ ret' = retNow
    /\ sent' = sentNow

\* Lines 169-197, entered with the session's agent `ag` and flag `init` as
\* the call reads them.
EnterCall(t, ag, init, retNow, locNow, sentNow) ==
    /\ call' = [call EXCEPT ![t] = @ + 1]
    /\ IF HasAgent(ag)
       THEN /\ pc' = [pc EXCEPT ![t] = AfterAgent(t)]
            /\ ret' = [retNow EXCEPT
                  ![t] = ExitRec("fast", init, ag, 0, "none", FALSE, {}, 0, FALSE)]
            /\ sent' = [sentNow EXCEPT ![t] = @ \o AgentMsgs(t)]
            /\ initializing' = init
            /\ loc' = locNow
            /\ UNCHANGED <<waited, nConstr>>
       ELSE IF InProgress(init)
       THEN /\ pc' = [pc EXCEPT ![t] = "waiting"]
            /\ waited' = [waited EXCEPT ![t] = 0]
            /\ initializing' = init
            /\ ret' = retNow
            /\ loc' = locNow
            /\ sent' = sentNow
            /\ UNCHANGED nConstr
       ELSE Begin(t, FALSE, retNow, locNow, sentNow)

\* An exception leaves get_or_create_agent with the flag at `flagNow`, and
\* the handler reacts without an await in between: on_message invalidates
\* the session entries and calls again when the text holds "closed" (lines
\* 517-524); otherwise one error message is sent and the handler ends.
Raises(t, path, flagNow, w, step, closed, undo) ==
    LET ex == ExitRec(path, flagNow, 0, w, step, closed, undo, loc[t].cid,
                      path = "timeout" \/ loc[t].viaWait)
        retNow == [ret EXCEPT ![t] = ex]
        locNow == [loc EXCEPT ![t] = IdleLoc]
    IN  IF RetriesOn(t, closed)
        THEN /\ agent' = 0
             /\ stdio_ctx' = 0
             /\ session_ctx' = 0
             /\ EnterCall(t, 0, flagNow, retNow, locNow, sent)
        ELSE /\ initializing' = flagNow
             /\ pc' = [pc EXCEPT ![t] = "done"]
             /\ sent' = [sent EXCEPT ![t] = Append(@, ErrMsg(t))]
             /\ ret' = retNow
             /\ loc' = locNow
             /\ waited' = [waited EXCEPT ![t] = 0]
             /\ UNCHANGED <<entryVars, call, nConstr>>

\* The flag is cleared on the success path only.
ConstructionRaises_NoFinally(t, step, closed, undo) ==
    Raises(t, "failure", initializing, 0, step, closed, undo)

\* An exception raised inside the try block: the finally clause has run.
ConstructionRaises(t, step, closed, undo) ==
    Raises(t, "failure", FlagAfterFinally, 0, step, closed, undo)

----------------------------------------------------------------------------
\* on_chat_start: the janitor sweep of the first chat start, the welcome.

\* docker ps -a --filter name=firebolt-mcp- --format
\* "{{.Names}} {{.Status}} {{.CreatedAt}}": every container, with its status.
Listing ==
    {<<n, "Up 5 minutes">> : n \in running}
        \cup {<<n, "Exited (0) 2 hours ago">> : n \in exited}
        \cup halted

\* The orders in which the lines of a listing can come.
Orders(S) ==
    {f \in [1..Cardinality(S) -> S] :
        \A i, j \in 1..Cardinality(S) : f[i] = f[j] => i = j}

\* Every listed container is taken for a stopped one.
IsStopped_Any(status) == TRUE

\* if "Exited" in status or "Dead" in status
IsStopped(status) == Contains("Exited", status) \/ Contains("Dead", status)

\* The latch is not looked at.
LatchSet_Ignored(done) == FALSE

\* hasattr(on_chat_start, '_cleanup_done')
LatchSet(done) == done

NoSweep == [listed |-> {}, visited |-> {}, rm |-> {}, failed |-> {}]

\* A failed removal ends the loop.
AfterRmFailure_Abort(rest) == <<>>

\* except: pass, inside the loop: the lines left are still visited.
AfterRmFailure(rest) == rest

\* on_chat_start._cleanup_done = True, then the welcome message is sent.
Welcome(t) ==
    /\ cleanup_done' = TRUE
    /\ pc' = [pc EXCEPT ![t] = "h_call"]
    /\ sent' = [sent EXCEPT ![t] = Append(@, "welcome")]

\* on_chat_start up to its first await that suspends.  With the latch set:
\* the welcome message.  Otherwise cleanup_old_containers starts: its
\* listing fails (logged) or is empty, and the handler goes on to the latch
\* and the welcome; or the lines of the listing are visited.
ChatStart(t) ==
    /\ t \in live
    /\ Kind(t) \in {"chat_start", "foreign_start"}
    /\ pc[t] = "idle"
    /\ LoopFree
    /\ IF LatchSet(cleanup_done)
       THEN /\ pc' = [pc EXCEPT ![t] = "h_call"]
            /\ sent' = [sent EXCEPT ![t] = Append(@, "welcome")]
            /\ UNCHANGED janVars
       ELSE /\ sweeps' = sweeps + 1
            /\ \/ /\ faulty \/ Listing = {}
                  /\ Welcome(t)
                  /\ UNCHANGED <<jlist, swept>>
               \/ /\ Listing # {}
                  /\ \E lines \in Orders(Listing) : jlist' = lines
                  /\ swept' = [swept EXCEPT !.listed = @ \cup Listing]
                  /\ pc' = [pc EXCEPT ![t] = "j_sweep"]
                  /\ UNCHANGED <<sent, cleanup_done>>
    /\ UNCHANGED <<call, waited, loc, ret, sessVars, rtVars, connVars, nConstr,
                   workVars, lifeVars, stream>>

\* One turn of the loop over the listing: a stopped container is
\* force-removed (the call takes effect, or it fails and the failure is
\* passed over).  After the last line the function returns, the latch is
\* set and the welcome is sent.
SweepLine(t) ==
    /\ pc[t] = "j_sweep"
    /\ IF jlist # <<>>
       THEN /\ IF IsStopped(FirstWord(Head(jlist)[2]))
               THEN \E ok \in Outcomes :
                       /\ running' = IF ok THEN RmRunning(Head(jlist)[1]) ELSE running
                       /\ exited' = IF ok THEN RmExited(Head(jlist)[1]) ELSE exited
                       /\ halted' = IF ok THEN RmHalted(Head(jlist)[1]) ELSE halted
                       /\ swept' = [swept EXCEPT
                             !.visited = @ \cup {Head(jlist)},
                             !.rm = @ \cup {Head(jlist)[1]},
                             !.failed = IF ok THEN @ ELSE @ \cup {Head(jlist)[1]}]
                       /\ jlist' = IF ok THEN Tail(jlist)
                                  ELSE AfterRmFailure(Tail(jlist))
               ELSE /\ swept' = [swept EXCEPT !.visited = @ \cup {Head(jlist)}]
                    /\ jlist' = Tail(jlist)
                    /\ UNCHANGED <<running, exited, halted>>
            /\ UNCHANGED <<pc, sent, cleanup_done>>
       ELSE /\ Welcome(t)
            /\ swept' = NoSweep
            /\ UNCHANGED <<jlist, running, exited, halted>>
    /\ UNCHANGED <<call, waited, loc, ret, sessVars, lastTs, connVars, nConstr,
                   sweeps, workVars, lifeVars, stream>>

----------------------------------------------------------------------------
\* The handlers' calls of get_or_create_agent.

\* The handler calls get_or_create_agent.
Enter(t) ==
    /\ t \in live
    /\ \/ Kind(t) = "chat_start" /\ pc[t] = "h_call"
       \/ Kind(t) = "message" /\ pc[t] = "idle"
    /\ LoopFree
    /\ EnterCall(t, agent, initializing, ret, loc, sent)
    /\ UNCHANGED <<entryVars, mcp_container_name, rtVars, connVars, workVars, lifeVars, stream, janVars>>

\* One turn of the wait loop (lines 182-194): sleep, count, look at the
\* agent, then at the flag; on leaving the loop either raise or fall through.
Poll(t) ==
    /\ pc[t] = "waiting"
    /\ LoopFree
    /\ LoopContinues(waited[t])
    /\ LET w == waited[t] + wait_interval
           leaves == ~InProgress(initializing) \/ ~LoopContinues(w)
       IN  IF HasAgent(agent)
           THEN /\ pc' = [pc EXCEPT ![t] = AfterAgent(t)]
                /\ ret' = [ret EXCEPT ![t] =
                      ExitRec("waited", initializing, agent, 0, "none", FALSE, {}, 0, TRUE)]
                /\ sent' = [sent EXCEPT ![t] = @ \o AgentMsgs(t)]
                /\ waited' = [waited EXCEPT ![t] = 0]
                /\ UNCHANGED <<call, loc, initializing, entryVars, nConstr>>
           ELSE IF leaves /\ LoopTimedOut(w)
           THEN Raises(t, "timeout", initializing, w, "wait", TimeoutTextHasClosed, {})
           ELSE IF leaves
           THEN /\ Begin(t, TRUE, ret, loc, sent)
                /\ UNCHANGED <<call, entryVars>>
           ELSE /\ waited' = [waited EXCEPT ![t] = w]
                /\ UNCHANGED <<pc, call, loc, ret, sent, initializing,
                               entryVars, nConstr>>
    /\ UNCHANGED <<mcp_container_name, rtVars, connVars, workVars, lifeVars, stream, janVars>>

----------------------------------------------------------------------------
\* The construction sequence, the part that runs without an await (197-325).

\* model = ChatBedrockConverse(**model_kwargs); base name; the recorded name.
ModelInit(t) ==
    /\ pc[t] = "s_model"
    /\ \/ \E closed \in ErrorTexts(t) : ConstructionRaises(t, "model", closed, {})
       \/ /\ loc' = [loc EXCEPT ![t].existing = mcp_container_name]
          /\ pc' = [pc EXCEPT
                ![t] = IF mcp_container_name # NoName THEN "s_reuse" ELSE "s_rm"]
          /\ UNCHANGED <<call, waited, ret, sent, initializing, entryVars, nConstr>>
    /\ UNCHANGED <<mcp_container_name, rtVars, connVars, workVars, lifeVars, stream, janVars>>

\* The exception of a runtime command leaves the function.
OnRuntimeError_Raise(next) == "done"

\* except Exception as e: logger.warning(...) / except: pass around each
\* runtime command of the provisioning: execution goes on with the
\* statement after the try block.
OnRuntimeError(next) == next

\* The stale recorded name is kept as the name to launch.
NameAfterStale_Existing(base, existing) == existing

\* The else branch of the reuse check assigns nothing to container_name:
\* it stays the base name of line 222.
NameAfterStale(base, existing) == base

\* Reuse check: docker ps for the recorded name.  An exception of the call
\* is logged and swallowed.
ReuseCheck(t) ==
    /\ pc[t] = "s_reuse"
    /\ \/ \* subprocess.run raised
          faulty /\ pc' = [pc EXCEPT ![t] = OnRuntimeError("s_rm")] /\ UNCHANGED loc
       \/ IF PsFinds(loc[t].existing)
          THEN /\ loc' = [loc EXCEPT ![t].name = loc[t].existing,
                                     ![t].reused = TRUE]
               /\ pc' = [pc EXCEPT ![t] = "s_rm"]
          ELSE /\ pc' = [pc EXCEPT ![t] = "s_rmstale"]
               /\ loc' = [loc EXCEPT
                     ![t].name = NameAfterStale(loc[t].name, loc[t].existing)]
    /\ UNCHANGED <<call, waited, ret, sent, sessVars, rtVars, connVars, nConstr, workVars, lifeVars, stream, janVars>>

\* docker rm -f <name>, issued by task t: it takes effect or fails.
DockerRm(t, name, next) ==
    /\ \E ok \in Outcomes :
          /\ running' = IF ok THEN RmRunning(name) ELSE running
          /\ exited' = IF ok THEN RmExited(name) ELSE exited
          /\ halted' = IF ok THEN RmHalted(name) ELSE halted
          /\ theirs' = IF ok THEN theirs \ {name} ELSE theirs
          /\ pc' = [pc EXCEPT ![t] = IF ok THEN next ELSE OnRuntimeError(next)]
    /\ loc' = [loc EXCEPT ![t].rmCalls = @ + 1]
    /\ UNCHANGED <<call, waited, ret, sent, sessVars, lastTs, connVars, nConstr, workVars, ended, stream, janVars>>

\* The recorded container is not running: docker rm -f existing_container.
RmStale(t) ==
    /\ pc[t] = "s_rmstale"
    /\ DockerRm(t, loc[t].existing, "s_rm")

\* "Clean up any old container with this name": docker rm -f container_name.
RmName(t) ==
    /\ pc[t] = "s_rm"
    /\ DockerRm(t, loc[t].name, "s_final")

\* Final check (docker ps for container_name) and the suffix on a conflict;
\* then the name is recorded in the session and stdio_client is entered.
FinalCheck(t) ==
    /\ pc[t] = "s_final"
    /\ \/ \* subprocess.run raised: swallowed
          /\ faulty
          /\ loc' = [loc EXCEPT ![t].race = "error"]
          /\ mcp_container_name' = loc[t].name
          /\ pc' = [pc EXCEPT ![t] = OnRuntimeError("a_stdio")]
          /\ UNCHANGED lastTs
       \/ /\ IF PsFinds(loc[t].name)
             THEN \E ts \in (lastTs + 1)..MaxClock :
                     /\ loc' = [loc EXCEPT ![t].name = WithSuffix(loc[t].name, ts),
                                           ![t].race = "found"]
                     /\ mcp_container_name' = WithSuffix(loc[t].name, ts)
                     /\ lastTs' = ts
             ELSE /\ loc' = [loc EXCEPT ![t].race = "clear"]
                  /\ mcp_container_name' = loc[t].name
                  /\ UNCHANGED lastTs
          /\ pc' = [pc EXCEPT ![t] = "a_stdio"]
    /\ UNCHANGED <<call, waited, ret, sent, initializing, entryVars, running,
                   exited, halted, connVars, nConstr, workVars, lifeVars, stream, janVars>>

----------------------------------------------------------------------------
\* The construction sequence from its first await on (325-475).

\* docker run -i --name <name>: the runtime refuses a name that is in use.
LaunchRunning(name) ==
    IF name \in InUse THEN running ELSE running \cup {name}

\* stdio_ctx.__aenter__() resumes: the docker client process was spawned, or
\* the call raised.
StdioEntered(t) ==
    /\ pc[t] = "a_stdio"
    /\ LoopFree
    /\ \/ /\ \E closed \in ErrorTexts(t) : ConstructionRaises(t, "stdio_enter", closed, {})
          /\ UNCHANGED <<running, stdioOpen>>
       \/ /\ running' = LaunchRunning(loc[t].name)
          /\ stdioOpen' = stdioOpen \cup {loc[t].cid}
          /\ loc' = [loc EXCEPT ![t].runCalls = @ + 1,
                                ![t].spawned = loc[t].name \notin InUse]
          /\ pc' = [pc EXCEPT ![t] = "a_sess"]
          /\ UNCHANGED <<call, waited, ret, sent, initializing, entryVars, nConstr>>
    /\ UNCHANGED <<mcp_container_name, exited, lastTs, halted, sessOpen, workVars, lifeVars,
                   stream, janVars>>

\* session_ctx.__aenter__() resumes.
SessEntered(t) ==
    /\ pc[t] = "a_sess"
    /\ LoopFree
    /\ \/ /\ \E closed \in ErrorTexts(t) : ConstructionRaises(t, "session_enter", closed, {})
          /\ UNCHANGED sessOpen
       \/ /\ sessOpen' = sessOpen \cup {loc[t].cid}
          /\ pc' = [pc EXCEPT ![t] = "a_init"]
          /\ UNCHANGED <<call, waited, loc, ret, sent, initializing, entryVars, nConstr>>
    /\ UNCHANGED <<mcp_container_name, rtVars, stdioOpen, workVars, lifeVars, stream, janVars>>

\* session.initialize() resumes.  The handshake is answered only by the
\* container this construction launched; on failure the except block starts
\* its cleanup with session_ctx.__aexit__().
Initialized(t) ==
    /\ pc[t] = "a_init"
    /\ LoopFree
    /\ \/ /\ loc[t].spawned
          /\ loc[t].name \in running
          /\ pc' = [pc EXCEPT ![t] = "a_tools"]
          /\ UNCHANGED loc
       \/ \E closed \in ErrorTexts(t) :
             /\ loc' = [loc EXCEPT ![t].closed = closed,
                                   ![t].undo = {"session_exit"}]
             /\ pc' = [pc EXCEPT ![t] = "a_undo1"]
    /\ UNCHANGED <<call, waited, ret, sent, sessVars, rtVars, connVars, nConstr, workVars, lifeVars, stream, janVars>>

\* session_ctx.__aexit__() resumes (closed, or it raised and is swallowed);
\* stdio_ctx.__aexit__() is called.
UndoSession(t) ==
    /\ pc[t] = "a_undo1"
    /\ LoopFree
    /\ \E ok \in Outcomes :
          sessOpen' = IF ok THEN sessOpen \ {loc[t].cid} ELSE sessOpen
    /\ loc' = [loc EXCEPT ![t].undo = @ \cup {"stdio_exit"}]
    /\ pc' = [pc EXCEPT ![t] = "a_undo2"]
    /\ UNCHANGED <<call, waited, ret, sent, sessVars, rtVars, stdioOpen, nConstr, workVars, lifeVars, stream, janVars>>

\* The recorded name is not looked up.
HasRecorded_Never(name) == FALSE

\* container_name = cl.user_session.get('mcp_container_name')
\* if container_name:
HasRecorded(name) == name # NoName

\* stdio_ctx.__aexit__() resumes; docker rm -f of the recorded name; the
\* handshake's exception is raised again and the finally clause runs.
UndoStdio(t) ==
    /\ pc[t] = "a_undo2"
    /\ LoopFree
    /\ \E ok \in Outcomes :
          stdioOpen' = IF ok THEN stdioOpen \ {loc[t].cid} ELSE stdioOpen
    /\ IF HasRecorded(mcp_container_name)
       THEN /\ \E ok \in Outcomes :
                  /\ running' = IF ok THEN RmRunning(mcp_container_name) ELSE running
                  /\ exited' = IF ok THEN RmExited(mcp_container_name) ELSE exited
                  /\ halted' = IF ok THEN RmHalted(mcp_container_name) ELSE halted
                  /\ theirs' = IF ok THEN theirs \ {mcp_container_name} ELSE theirs
            /\ ConstructionRaises(t, "handshake", loc[t].closed,
                                  loc[t].undo \cup {"rm"})
       ELSE /\ UNCHANGED <<running, exited, halted, theirs>>
            /\ ConstructionRaises(t, "handshake", loc[t].closed, loc[t].undo)
    /\ UNCHANGED <<mcp_container_name, lastTs, sessOpen, workVars, ended, stream, janVars>>

\* load_mcp_tools() resumes; vector store and schema (their failures are
\* caught); create_react_agent; the session entries; finally; return.
ToolsLoaded(t) ==
    /\ pc[t] = "a_tools"
    /\ LoopFree
    /\ \/ \E closed \in ErrorTexts(t) : ConstructionRaises(t, "load_tools", closed, {})
       \/ \E closed \in ErrorTexts(t) : ConstructionRaises(t, "build_agent", closed, {})
       \/ /\ agent' = loc[t].cid
          /\ stdio_ctx' = loc[t].cid
          /\ session_ctx' = loc[t].cid
          /\ initializing' = FlagAfterFinally
          /\ pc' = [pc EXCEPT ![t] = AfterAgent(t)]
          /\ ret' = [ret EXCEPT ![t] =
                ExitRec("success", FlagAfterFinally, loc[t].cid, 0, "none",
                        FALSE, {}, loc[t].cid, loc[t].viaWait)]
          /\ sent' = [sent EXCEPT ![t] = @ \o AgentMsgs(t)]
          /\ loc' = [loc EXCEPT ![t] = IdleLoc]
          /\ UNCHANGED <<call, waited, nConstr>>
    /\ UNCHANGED <<mcp_container_name, rtVars, connVars, workVars, lifeVars, stream, janVars>>

----------------------------------------------------------------------------
\* on_message with an Agent: the answer is streamed (lines 551-755).

\* An event of agent.astream(stream_mode='messages'): the class name of the
\* message, the form of its content (a str; a list whose first block is a
\* text block, `content` being that text; a list that starts otherwise; an
\* empty list) and the content.
Ev(type, form, content) == [type |-> type, form |-> form, content |-> content]

Chunk(text) == Ev("AIMessageChunk", "str", text)

\* The events the agent's stream is made of.
AgentEvents ==
    {Ev("ToolCall", "str", "lookup the rows"),
     Ev("ToolMessage", "str", "42 rows found"),
     Ev("ToolCallChunk", "str", "Hello "),
     Chunk("[Called x]"), Chunk("Hello "), Chunk("World"), Chunk(""),
     Chunk("mcp"), Chunk("  [Tool: x]"), Chunk("use the tool now"),
     Chunk("see [tool_use id"),
     Ev("AIMessageChunk", "list_text", "Hi"),
     Ev("AIMessageChunk", "list_other", ""),
     Ev("AIMessage", "str", "Done."),
     Ev("AIMessage", "list_text", "No")}

\* [ToolCall, "[Called x]", "Hello ", "World", ToolResult]
ExampleEvents ==
    <<Ev("ToolCall", "str", "lookup the rows"), Chunk("[Called x]"),
      Chunk("Hello "), Chunk("World"), Ev("ToolMessage", "str", "42 rows found")>>

\* The stream is followed for MaxEvents events of any kind, and to the end
\* of the example sequence.
MayYield(fed, ev) ==
    agentTalks /\ (Len(fed) < MaxEvents \/ IsPrefix(Append(fed, ev), ExampleEvents))

\* str(e) of the exceptions the stream is followed for.
ErrorSamples ==
    {"ExpiredTokenException: the security token is expired",
     "Token has EXPIRED",
     "session expired",
     "AccessDeniedException: aws-marketplace:Subscribe",
     "AccessDeniedException on aws-marketplace, token expired",
     "AccessDeniedException",
     "Invalid domain for firebolt client",
     "Invalid domain firebolt: relation t does not exist",
     "relation pdf_semantic_index does not exist",
     "Connection closed",
     ""}

exclude_patterns ==
    <<"[called ", "[tool output:", "[tool:", "[function:", "executing tool",
      "calling tool", "tool_result", "tool_use">>

\* Only the empty fragment is held back.
should_include_content_Lenient(content_str) == content_str # ""

\* def should_include_content(content_str)
should_include_content(content_str) ==
    IF content_str = "" THEN FALSE
    ELSE LET content_lower == Lower(Strip(content_str))
         IN  IF \E i \in 1..Len(exclude_patterns) :
                    \/ StartsWith(content_lower, exclude_patterns[i])
                    \/ Contains("[" \o exclude_patterns[i], content_lower)
             THEN FALSE
             ELSE IF /\ Len(Strip(content_str)) < 10
                     /\ \E word \in {"tool", "function", "mcp"} :
                            Contains(word, content_lower)
             THEN FALSE
             ELSE TRUE

\* ToolCallChunk events are let through.
ToolTypes_NoChunk == {"ToolMessage", "ToolCall"}

\* if msg_type in ['ToolMessage', 'ToolCall', 'ToolCallChunk']: continue
ToolTypes == {"ToolMessage", "ToolCall", "ToolCallChunk"}

\* The text an event offers to the filter, <<>> if none (lines 616-645).
Candidate(ev) ==
    IF ev.type \in ToolTypes THEN <<>>
    ELSE IF ev.type = "AIMessageChunk"
    THEN IF ev.form = "str" /\ ev.content # "" THEN <<ev.content>>
         ELSE IF ev.form = "list_text" THEN <<ev.content>>
         ELSE <<>>
    ELSE IF ev.form = "str" /\ ev.content # "" THEN <<ev.content>>
    ELSE <<>>

\* The fragment an event gets forwarded, <<>> if none.
Forwarded(ev) ==
    IF Candidate(ev) # <<>> /\ should_include_content(Candidate(ev)[1])
    THEN Candidate(ev) ELSE <<>>

\* Forwarded, tabulated over the events of the stream.
ForwardedBy == [ev \in AgentEvents |-> Forwarded(ev)]

\* The fragment is trimmed on its way.
Appended_Trimmed(acc, text) == acc \o Strip(text)

\* response_content += msg.content
Appended(acc, text) == acc \o text

\* The streamed message is finalized whatever was forwarded.
HasContent_Always(acc) == TRUE

\* if response_content:
HasContent(acc) == acc # ""

IdleStream == [n |-> 0, fed |-> <<>>, acc |-> "", tokens |-> <<>>, err |-> <<>>]

\* The conditions of the except block, in the order of its if / elif chain.
IsCredentialExpired(error_str) ==
    /\ Contains("ExpiredTokenException", error_str) \/ Contains("expired", Lower(error_str))
    /\ Contains("token", Lower(error_str))

IsMarketplaceAccessDenied(error_str) ==
    Contains("AccessDeniedException", error_str) /\ Contains("aws-marketplace", Lower(error_str))

IsAuthDomainMismatch(error_str) ==
    Contains("Invalid domain", error_str) /\ Contains("firebolt", Lower(error_str))

IsRelationNotFound(error_str) ==
    Contains("relation", Lower(error_str)) /\ Contains("does not exist", Lower(error_str))

\* The relation rule is tested first.
Classify_RelationFirst(error_str) ==
    IF IsRelationNotFound(error_str) THEN "RelationNotFound"
    ELSE IF IsCredentialExpired(error_str) THEN "CredentialExpired"
    ELSE IF IsMarketplaceAccessDenied(error_str) THEN "MarketplaceAccessDenied"
    ELSE IF IsAuthDomainMismatch(error_str) THEN "AuthDomainMismatch"
    ELSE "Unclassified"

Classify(error_str) ==
    IF IsCredentialExpired(error_str) THEN "CredentialExpired"
    ELSE IF IsMarketplaceAccessDenied(error_str) THEN "MarketplaceAccessDenied"
    ELSE IF IsAuthDomainMismatch(error_str) THEN "AuthDomainMismatch"
    ELSE IF IsRelationNotFound(error_str) THEN "RelationNotFound"
    ELSE "Unclassified"

\* The content of the message of each branch (headings; the remediation
\* text between heading and details is left out).
ErrorMessage(kind, error_str) ==
    CASE kind = "CredentialExpired" ->
           "**AWS Session Token Expired** Error details: " \o Take(error_str, 200)
      [] kind = "MarketplaceAccessDenied" ->
           "**AWS Marketplace Access Error** Error details: " \o Take(error_str, 200)
      [] kind = "AuthDomainMismatch" ->
           "**Firebolt Authentication Error** Error details: " \o Take(error_str, 300)
      [] kind = "RelationNotFound" ->
           "**Firebolt SQL Error: Relation Not Found** **Error details:** "
               \o Take(error_str, 500)
      [] OTHER ->
           "Error processing message: " \o error_str
               \o "\n\nCheck server logs for details."

\* Classify and ErrorMessage, tabulated over the exceptions of the stream.
KindOf == [error_str \in ErrorSamples |-> Classify(error_str)]

MessageFor == [error_str \in ErrorSamples |->
                  ErrorMessage(Classify(error_str), error_str)]

\* The branch that sends its message itself and binds no err_msg, so that
\* the closing `await err_msg.send()` raises UnboundLocalError.
SendsInBranch(kind) == kind = "CredentialExpired"

\* One step of the streaming block: the next event of the stream (filtered,
\* forwarded with stream_token and accumulated); or the end of the stream
\* (update of the streamed message, or the placeholder); or an exception,
\* handled by the except block.  stream_token, update and send act on this
\* handler's own message only: they are taken together with the step that
\* calls them.
Stream(t) ==
    /\ pc[t] = "h_stream"
    /\ LoopFree
    /\ \/ \E ev \in AgentEvents :
             /\ MayYield(stream[t].fed, ev)
             /\ stream' = [stream EXCEPT
                   ![t].n = @ + 1,
                   ![t].fed = Append(@, ev),
                   ![t].acc = IF ForwardedBy[ev] # <<>>
                              THEN Appended(@, ForwardedBy[ev][1]) ELSE @,
                   ![t].tokens = @ \o ForwardedBy[ev]]
             /\ UNCHANGED <<pc, sent>>
       \/ /\ sent' = [sent EXCEPT ![t] =
                 Append(@, IF HasContent(stream[t].acc) THEN "update" ELSE "placeholder")]
          /\ pc' = [pc EXCEPT ![t] = "done"]
          /\ stream' = [stream EXCEPT ![t] = IdleStream]
       \/ /\ agentFails
          /\ \E error_str \in ErrorSamples :
                /\ sent' = [sent EXCEPT ![t] = Append(@, MessageFor[error_str])]
                /\ pc' = [pc EXCEPT ![t] =
                       IF SendsInBranch(KindOf[error_str]) THEN "crashed" ELSE "done"]
                /\ stream' = [stream EXCEPT ![t] = [IdleStream EXCEPT !.err = <<error_str>>]]
    /\ UNCHANGED <<call, waited, loc, ret, sessVars, rtVars, connVars, nConstr,
                   workVars, lifeVars, janVars>>

----------------------------------------------------------------------------
\* The docker runtime seen from outside this process.  Its changes are
\* followed where the program is about to look at it: a container started by
\* another provisioner before the final check, a container that stopped
\* before the reuse check.

\* A concurrent provisioner (a session whose id starts with the same SidLen
\* characters) starts a container under the base name.
ExternalCreate ==
    /\ faulty
    /\ \E u \in Tasks : pc[u] = "s_final"
    /\ BaseName \notin InUse
    /\ running' = running \cup {BaseName}
    /\ theirs' = theirs \cup {BaseName}
    /\ UNCHANGED <<pc, call, waited, loc, ret, sent, sessVars, exited, lastTs,
                   halted, connVars, nConstr, workVars, ended, stream, janVars>>

\* A running container stops; docker keeps it as exited.
ContainerExit ==
    /\ faulty
    /\ \E u \in Tasks : pc[u] = "s_reuse"
    /\ \E n \in running :
          /\ running' = running \ {n}
          /\ exited' = exited \cup {n}
          /\ theirs' = theirs \ {n}
    /\ UNCHANGED <<pc, call, waited, loc, ret, sent, sessVars, lastTs, halted,
                   connVars, nConstr, workVars, ended, stream, janVars>>

\* The session's UI connection ends, once its handlers are through.  The
\* module registers on_chat_start and on_message only: no code of it runs
\* on that event, and nothing of the session or the runtime is touched.
ChatEnd ==
    /\ ~ended
    /\ \A t \in live : pc[t] \in {"done", "crashed"}
    /\ ended' = TRUE
    /\ UNCHANGED <<pc, call, waited, loc, ret, sent, sessVars, rtVars, connVars,
                   nConstr, workVars, theirs, stream, janVars>>

----------------------------------------------------------------------------
\* The session as it is created, before any handler has run.
Fresh ==
    /\ pc = [t \in Tasks |-> "idle"]
    /\ call = [t \in Tasks |-> 0]
    /\ waited = [t \in Tasks |-> 0]
    /\ loc = [t \in Tasks |-> IdleLoc]
    /\ ret = [t \in Tasks |-> NoExit]
    /\ sent = [t \in Tasks |-> <<>>]
    /\ initializing = FALSE
    /\ agent = 0
    /\ stdio_ctx = 0
    /\ session_ctx = 0
    /\ mcp_container_name = NoName
    /\ lastTs = 0
    /\ stdioOpen = {}
    /\ sessOpen = {}
    /\ nConstr = 0
    /\ stream = [t \in Tasks |-> IdleStream]
    /\ cleanup_done = FALSE
    /\ sweeps = 0
    /\ jlist = <<>>
    /\ swept = NoSweep
    /\ ended = FALSE

\* The runtime holds no container of the namespace.
NoContainers == running = {} /\ exited = {} /\ halted = {} /\ theirs = {}

\* Containers of two other sessions, left by an earlier run of the process.
OtherNames == {<<"firebolt-mcp-">> \o [i \in 1..SidLen |-> k] : k \in {7, 8}}

\* The id of another session: it differs from session_id after the first
\* SidLen characters only.
twin_session_id == SubSeq(session_id, 1, SidLen) \o <<9, 9>>

\* f"firebolt-mcp-{session_id_short}" in that session.
TwinName == <<"firebolt-mcp-">> \o SubSeq(twin_session_id, 1, SidLen)

Populated == OtherNames \cup {TwinName}

Statuses == {"absent", "Up", "Exited", "Dead", "Created"}

\* Any mix of statuses for the containers of the other sessions; the
\* running ones belong to sessions that are live.
SomeContainers ==
    \E st \in [Populated -> Statuses] :
        /\ running = {n \in Populated : st[n] = "Up"}
        /\ exited = {n \in Populated : st[n] = "Exited"}
        /\ halted = {<<n, st[n]>> : n \in {m \in Populated : st[m] \in {"Dead", "Created"}}}
        /\ theirs = {n \in Populated : st[n] = "Up"}

Init ==
    Fresh /\ NoContainers /\ live = 1..NumTasks /\ faulty = TRUE /\ agentTalks = FALSE
          /\ agentFails = FALSE

InitConc ==
    Fresh /\ NoContainers /\ live = 1..NumConc /\ faulty = FALSE /\ agentTalks = FALSE
          /\ agentFails = FALSE

InitStream ==
    Fresh /\ NoContainers /\ live = {2} /\ faulty = FALSE /\ agentTalks = TRUE
          /\ agentFails = TRUE

InitBroken ==
    Fresh /\ NoContainers /\ live = {2, 3} /\ faulty = FALSE /\ agentTalks = FALSE
          /\ agentFails = TRUE

InitJanitor ==
    Fresh /\ SomeContainers /\ live = {1} \cup Foreign /\ faulty = TRUE
          /\ agentTalks = FALSE /\ agentFails = FALSE

\* The start of a chat-start handler.
StartStep(t) ==
    \/ ChatStart(t)
    \/ SweepLine(t)

\* A construction in a session that has no recorded container.
BuildStep(t) ==
    \/ Enter(t)
    \/ ModelInit(t)
    \/ RmName(t)
    \/ FinalCheck(t)
    \/ StdioEntered(t)
    \/ SessEntered(t)
    \/ Initialized(t)
    \/ UndoSession(t)
    \/ UndoStdio(t)
    \/ ToolsLoaded(t)

\* The steps only a later construction of the session takes.
RebuildStep(t) ==
    \/ ReuseCheck(t)
    \/ RmStale(t)

TaskStep(t) ==
    \/ StartStep(t)
    \/ BuildStep(t)
    \/ RebuildStep(t)
    \/ Poll(t)
    \/ Stream(t)

Next ==
    \/ \E t \in Tasks : TaskStep(t)
    \/ ExternalCreate
    \/ ContainerExit

NextConc == \E t \in Tasks : TaskStep(t)

NextStream ==
    \/ \E t \in Tasks : BuildStep(t) \/ RebuildStep(t) \/ Stream(t)
    \/ ChatEnd

NextBroken == \E t \in Tasks : BuildStep(t) \/ RebuildStep(t) \/ Poll(t) \/ Stream(t)

NextJanitor ==
    \/ \E t \in Tasks : StartStep(t) \/ BuildStep(t)
    \/ ExternalCreate

\* One on_chat_start and one on_message against a runtime that may fail.
Spec == Init /\ [][Next]_vars

\* One on_chat_start and two on_message against a runtime whose calls succeed.
SpecConc == InitConc /\ [][NextConc]_vars

\* One on_message whose agent yields events and exceptions, and the end of
\* the session's UI connection after it.
SpecStream == InitStream /\ [][NextStream]_vars

\* The same, with every step that can be taken taken at last: the event loop
\* runs each task that is ready, and the connection does end.
SpecEnd == InitStream /\ [][NextStream]_vars /\ WF_vars(NextStream)

\* Two on_message whose agent's stream ends at once or raises.
SpecBroken == InitBroken /\ [][NextBroken]_vars

\* The chat starts of the session and of other sessions, against a runtime
\* that holds containers of every status and may fail.
SpecJanitor == InitJanitor /\ [][NextJanitor]_vars

----------------------------------------------------------------------------
\* Single flight.

Returned(t) == ret[t].path \in {"fast", "waited", "success"}

\* The Agents in use in the session: the registered one and those handlers hold.
AgentsInUse == ({agent} \cup {ret[t].agent : t \in Tasks}) \ {0}

\* C1: for one session, under any interleaving of concurrent
\* get_or_create_agent calls, at most one call is inside the construction
\* sequence at any time, and at most one Agent is in use for the session.
C1_SingleFlight ==
    /\ Cardinality(Constructing) <= 1
    /\ Cardinality(AgentsInUse) <= 1

\* A second construction runs (a waiter fell through after a failure) while a
\* third call is still in its wait loop.
C1_Witness ==
    /\ nConstr >= 2
    /\ Constructing # {}
    /\ \E u \in Tasks : pc[u] = "waiting" /\ waited[u] > 0

\* What a finished call observed: the Agent it got, or the error it raised.
Outcome(t) ==
    IF Returned(t) THEN <<"agent", ret[t].agent, "none">>
    ELSE <<ret[t].path, ret[t].cid, ret[t].step>>

FirstCallsOnly == \A t \in Tasks : call[t] <= 1

\* The finished calls that overlapped the first construction: the call that
\* ran it and every call that went through the wait loop.
Overlapped(t) == ret[t].path # "none" /\ (ret[t].cid = 1 \/ ret[t].waiter)

C3_FlagClearAtEveryExit ==
    \A t \in Tasks : ret[t].path # "none" => ~ret[t].flag

\* C3 as amended: the flag is false at the moment a call returns (fast path,
\* wait loop, construction success) or a construction raises; a TimeoutError
\* out of the wait loop leaves the flag as the in-flight initializer set it.
C3_FlagClearAtExitButTimeout ==
    \A t \in Tasks : ret[t].path \in {"fast", "waited", "success", "failure"}
                        => ~ret[t].flag

\* One call left through a failed handshake; the call that had waited for
\* it ran the construction itself and returned its Agent.
C3_Witness ==
    /\ \E t \in Tasks : ret[t].path = "failure" /\ ret[t].step = "handshake"
    /\ \E u \in Tasks : ret[u].path = "success" /\ ret[u].waiter

\* C4: the flag is set only while some task is inside the construction
\* sequence: every construction that set it cleared it when it ended,
\* whichever step raised.
C4_FlagOnlyWhileConstructing ==
    initializing => Constructing # {}

\* A construction ended in create_react_agent raising, after the handshake
\* had succeeded, and nothing runs now.
C4_Witness ==
    /\ \E t \in Tasks : ret[t].path = "failure" /\ ret[t].step = "build_agent"
    /\ Constructing = {}
    /\ ~initializing

----------------------------------------------------------------------------
\* Resources of a failed construction.

ConnectionOpen == stdioOpen # {} \/ sessOpen # {}

\* C5: when no construction sequence is running, a live connection exists
\* if and only if an Agent is registered, and a registered Agent has its
\* connection entries.
C5_NoTornState ==
    Constructing = {} =>
        /\ ConnectionOpen <=> agent # 0
        /\ agent # 0 => stdio_ctx = agent /\ session_ctx = agent

AcquiredSteps == {"session_enter", "handshake", "load_tools", "build_agent"}

\* C6: an exception of a step that runs after the transport was opened
\* leaves get_or_create_agent only after the teardown of the connection and
\* the forced removal of the container were attempted.
C6_UndoBeforePropagate ==
    \A t \in Tasks :
        (ret[t].path = "failure" /\ ret[t].step \in AcquiredSteps)
            => {"stdio_exit", "rm"} \subseteq ret[t].undo

\* C7: a construction that found the recorded container running issues no
\* docker rm and no docker run.
C7_PureReuse ==
    \A t \in Tasks :
        loc[t].reused => loc[t].rmCalls = 0 /\ loc[t].runCalls = 0

NamedPcs == {"a_stdio", "a_sess", "a_init", "a_undo1", "a_undo2", "a_tools"}

\* C8: in fresh provisioning, a running container found by the final check
\* makes the name used for the launch the base name plus a suffix, different
\* from the name that collided; a final check that finds nothing leaves the
\* base name 'firebolt-mcp-' + session id[:12].
C8_FreshName ==
    \A t \in Tasks :
        (pc[t] \in NamedPcs /\ ~loc[t].reused) =>
            /\ mcp_container_name = loc[t].name
            /\ loc[t].race = "found" =>
                  /\ loc[t].name # BaseName
                  /\ Len(loc[t].name) = Len(BaseName) + 1
                  /\ IsPrefix(BaseName, loc[t].name)
            /\ loc[t].race = "clear" =>
                  loc[t].name = <<"firebolt-mcp-", 1, 2, 3, 4, 5, 6, 7, 8, 9, 1, 2, 3>>

\* A fresh provisioning is about to launch under a suffixed name.
C8_Witness ==
    \E t \in Tasks :
        pc[t] = "a_stdio" /\ ~loc[t].reused /\ loc[t].race = "found"

----------------------------------------------------------------------------
\* The bounded wait.

StepOf(t) == pc'[t] # pc[t] \/ waited'[t] # waited[t]

\* C9: a waiting caller polls at most 30 times; its poll with waited = 29
\* that still sees the flag set and no Agent raises TimeoutError, and that
\* step changes nothing of the session or of the other tasks: the flag stays
\* set and the initializer goes on.
C9_BoundedWait ==
    /\ [](\A t \in Tasks :
            /\ waited[t] <= 30
            /\ ret[t].path = "timeout" => ret[t].waited = 30)
    /\ [][\A t \in Tasks :
            (pc[t] = "waiting" /\ StepOf(t) /\ waited[t] = 29
                /\ agent = 0 /\ initializing)
            => /\ ret'[t].path = "timeout"
               /\ pc'[t] = "done"
               /\ initializing'
               /\ UNCHANGED <<entryVars, mcp_container_name, rtVars,
                              connVars, nConstr>>
               /\ \A u \in Tasks \ {t} :
                     pc'[u] = pc[u] /\ loc'[u] = loc[u] /\ ret'[u] = ret[u]]_vars

\* A caller timed out while the flag was set, and the initializer it had
\* waited for registered its Agent afterwards.
C9_Witness ==
    /\ \E t \in Tasks : ret[t].path = "timeout" /\ ret[t].flag
    /\ agent # 0

\* C10: a waiting caller that sees the flag cleared and no Agent, at any of
\* its polls, runs the construction itself instead of raising TimeoutError
\* (so a TimeoutError is raised only with the flag still set); a caller that
\* sees an Agent at a poll returns it.
C10_RetryAtAnyPoll ==
    \A t \in Tasks :
        /\ ret[t].path = "timeout" => ret[t].flag
        /\ ret[t].path = "waited" => ret[t].agent # 0

----------------------------------------------------------------------------
\* The fast path.

\* A handler calls get_or_create_agent (its first call of the function).
Calls(t) ==
    /\ \/ Kind(t) = "chat_start" /\ pc[t] = "h_call"
       \/ Kind(t) = "message" /\ pc[t] = "idle"
    /\ call'[t] = call[t] + 1

\* C11: a get_or_create_agent call made while an Agent is registered
\* returns that Agent and changes nothing else: the flag, the recorded
\* container name, the connection entries, the connections and the runtime
\* stay as they are, no construction starts, no other task moves; so every
\* such call returns the same Agent as long as it stays registered.
C11_FastPathFrame ==
    [][\A t \in Tasks :
          (Calls(t) /\ agent # 0)
          => /\ ret'[t].path = "fast"
             /\ ret'[t].agent = agent
             /\ pc'[t] = AfterAgent(t)
             /\ UNCHANGED <<sessVars, rtVars, connVars, nConstr, loc, waited>>
             /\ \A u \in Tasks \ {t} : pc'[u] = pc[u] /\ ret'[u] = ret[u]]_vars

\* Two calls in a row came back on the fast path with the Agent a third
\* call had built.
C11_Witness ==
    \E t, u \in Tasks :
        /\ t # u
        /\ ret[t].path = "fast" /\ ret[u].path = "fast"
        /\ ret[t].agent = agent /\ ret[u].agent = agent /\ agent # 0

----------------------------------------------------------------------------
\* Failures while a message is handled.

Ended(t) == pc[t] \in {"done", "crashed"}

\* The handler's stream raised an exception.
StreamRaised(t) == stream[t].err # <<>>

\* C12: a failure with "closed" in its text, wherever on_message meets it,
\* makes the handler invalidate the session's Agent and make one more
\* get_or_create_agent call: a handler whose stream raised such a failure
\* has not left the Agent it streamed from registered; a failed retry ends
\* the handler with the one error message, and no handler makes a third call.
C12_RetryWhereverDetected ==
    \A t \in Tasks :
        /\ call[t] <= 2
        /\ (pc[t] = "done" /\ call[t] = 2 /\ ~Returned(t))
               => sent[t] = <<"conn_failed">>
        /\ (Ended(t) /\ StreamRaised(t) /\ ClosedText(stream[t].err[1]))
               => agent # ret[t].agent

\* C13: whatever exception the stream raised, the handler has sent exactly
\* one message, the error message of its kind, and has completed normally.
C13_OneErrorMessageThenDone ==
    \A t \in Tasks :
        (Ended(t) /\ StreamRaised(t))
            => /\ Len(sent[t]) = 1
               /\ pc[t] = "done"

----------------------------------------------------------------------------
\* The streaming pipeline.

\* The handler has just taken an event from the stream.
Took(t) == stream'[t].n = stream[t].n + 1

\* C14: an event whose type is ToolMessage, ToolCall or ToolCallChunk,
\* whatever its content, causes no stream_token call, leaves the
\* accumulator as it is and sends nothing.
C14_ToolEventsNeverForwarded ==
    [][\A t \in Tasks :
          (Took(t) /\ stream'[t].fed[Len(stream'[t].fed)].type
                          \in {"ToolMessage", "ToolCall", "ToolCallChunk"})
          => /\ stream'[t].tokens = stream[t].tokens
             /\ stream'[t].acc = stream[t].acc
             /\ sent' = sent]_vars

\* Three tool events of the three types, with contents the filter would
\* let through, were taken and nothing was forwarded.
C14_Witness ==
    \E t \in Tasks :
        /\ {stream[t].fed[i].type : i \in 1..Len(stream[t].fed)}
              = {"ToolMessage", "ToolCall", "ToolCallChunk"}
        /\ stream[t].tokens = <<>>
        /\ stream[t].acc = ""

RECURSIVE Joined(_)
Joined(fragments) ==
    IF fragments = <<>> THEN ""
    ELSE Head(fragments) \o Joined(Tail(fragments))

\* The fragments of a sequence of events that pass the filter, in order.
RECURSIVE Passing(_)
Passing(events) ==
    IF events = <<>> THEN <<>>
    ELSE ForwardedBy[Head(events)] \o Passing(Tail(events))

\* C15: whatever events were taken so far, the streamed tokens are the
\* fragments that pass the filter, in arrival order and as they came, and
\* the accumulator is their concatenation; the events [ToolCall,
\* "[Called x]", "Hello ", "World", ToolResult] give "Hello World".
C15_OutputIsPassingFragments ==
    \A t \in Tasks :
        /\ stream[t].tokens = Passing(stream[t].fed)
        /\ stream[t].acc = Joined(Passing(stream[t].fed))
        /\ stream[t].fed = ExampleEvents
              => stream[t].acc = "Hello World" /\ stream[t].tokens = <<"Hello ", "World">>

\* The five events of the example were taken.
C15_Witness ==
    \E t \in Tasks :
        /\ Len(stream[t].fed) = 5
        /\ stream[t].fed[1].type = "ToolCall"
        /\ stream[t].fed[2].content = "[Called x]"
        /\ stream[t].fed[5].type = "ToolMessage"
        /\ stream[t].acc = "Hello World"

\* The non-empty text fragments among the events taken by task t.
Fragments(t) ==
    {Candidate(stream[t].fed[i])[1] :
        i \in {j \in 1..Len(stream[t].fed) :
                  /\ Candidate(stream[t].fed[j]) # <<>>
                  /\ Candidate(stream[t].fed[j])[1] # ""}}

\* The forwarded fragments among the events taken by task t.
ForwardedFragments(t) == {stream[t].tokens[i] : i \in 1..Len(stream[t].tokens)}

\* (a) as stated: the trimmed, lower-cased fragment starts with a marker.
StartsWithMarker(text) ==
    \E i \in 1..Len(exclude_patterns) :
        StartsWith(Lower(Strip(text)), exclude_patterns[i])

\* The trimmed, lower-cased fragment holds "[" followed by a marker, anywhere.
HoldsBracketedMarker(text) ==
    \E i \in 1..Len(exclude_patterns) :
        Contains("[" \o exclude_patterns[i], Lower(Strip(text)))

\* (b): trimmed length below 10 and one of the keywords in it.
ShortWithKeyword(text) ==
    /\ Len(Strip(text)) < 10
    /\ \E word \in {"tool", "function", "mcp"} : Contains(word, Lower(Strip(text)))

\* C16 as stated: a non-empty text fragment is held back only if (a) or (b)
\* holds for it; every other one is forwarded.
C16_SuppressedOnlyByPrefixOrShort ==
    \A t \in Tasks : \A text \in Fragments(t) :
        text \notin ForwardedFragments(t)
            => StartsWithMarker(text) \/ ShortWithKeyword(text)

\* C16 as amended: a non-empty text fragment is held back if and only if
\* its trimmed, lower-cased form starts with a marker or holds "[" followed
\* by a marker anywhere, or (b) holds for it; every other one is forwarded.
C16_SuppressedByMarkerOrShort ==
    \A t \in Tasks : \A text \in Fragments(t) :
        text \notin ForwardedFragments(t)
            <=> \/ StartsWithMarker(text)
                \/ HoldsBracketedMarker(text)
                \/ ShortWithKeyword(text)

\* A long fragment with a bracketed marker in its middle was held back, and
\* a long fragment that only mentions a keyword was forwarded.
C16_Witness ==
    \E t \in Tasks :
        /\ "see [tool_use id" \in Fragments(t) \ ForwardedFragments(t)
        /\ "use the tool now" \in ForwardedFragments(t)

\* The stream of task t has just ended without raising.
StreamEnds(t) ==
    pc[t] = "h_stream" /\ pc'[t] # "h_stream" /\ stream'[t].err = <<>>

\* C17: when the stream ends without raising, the handler completes with
\* exactly one more outbound operation: the update of the streamed message
\* if at least one fragment was forwarded (the accumulator is then not
\* empty), the placeholder message otherwise; no error message is sent.
C17_UpdateOrPlaceholder ==
    [][\A t \in Tasks :
          StreamEnds(t)
          => /\ pc'[t] = "done"
             /\ (stream[t].tokens # <<>>) <=> (stream[t].acc # "")
             /\ sent'[t] = Append(sent[t], IF stream[t].tokens # <<>>
                                           THEN "update" ELSE "placeholder")]_vars

\* A handler finished with the update of its streamed message.
C17_Witness ==
    \E t \in Tasks : pc[t] = "done" /\ sent[t] = <<"update">>

\* The kinds in the stated priority, Unclassified being the fallback.
Priority ==
    <<"CredentialExpired", "MarketplaceAccessDenied", "AuthDomainMismatch",
      "RelationNotFound">>

\* The rule of each kind, as stated.
Matches(kind, text) ==
    CASE kind = "CredentialExpired" ->
           /\ Contains("ExpiredTokenException", text) \/ Contains("expired", Lower(text))
           /\ Contains("token", Lower(text))
      [] kind = "MarketplaceAccessDenied" ->
           Contains("AccessDeniedException", text) /\ Contains("aws-marketplace", Lower(text))
      [] kind = "AuthDomainMismatch" ->
           Contains("Invalid domain", text) /\ Contains("firebolt", Lower(text))
      [] kind = "RelationNotFound" ->
           Contains("relation", Lower(text)) /\ Contains("does not exist", Lower(text))

\* The earliest kind of the priority whose rule matches, else Unclassified.
Earliest(text) ==
    LET hits == {i \in 1..Len(Priority) : Matches(Priority[i], text)}
    IN  IF hits = {} THEN "Unclassified"
        ELSE Priority[CHOOSE i \in hits : \A j \in hits : i <= j]

\* C18: the message sent for an exception of the stream is the message of
\* exactly one kind: the earliest kind of the priority whose rule matches
\* the text, or Unclassified with the raw text when no rule matches.
C18_ClassificationOrdered ==
    \A t \in Tasks :
        StreamRaised(t) =>
            LET text == stream[t].err[1]
                message == sent[t][Len(sent[t])]
            IN  /\ message = ErrorMessage(Earliest(text), text)
                /\ \A kind \in {Priority[i] : i \in 1..Len(Priority)} \cup {"Unclassified"} :
                       kind # Earliest(text) => message # ErrorMessage(kind, text)
                /\ Earliest(text) = "Unclassified" => Contains(text, message)

\* An exception whose text matches the rules of two kinds got the message
\* of the earlier one.
C18_Witness ==
    \E t \in Tasks :
        /\ StreamRaised(t)
        /\ stream[t].err[1] = "Invalid domain firebolt: relation t does not exist"
        /\ StartsWith(sent[t][Len(sent[t])], "**Firebolt Authentication Error**")

----------------------------------------------------------------------------
\* The janitor.

\* C19: whatever chat starts arrive, of whatever sessions and in whatever
\* order, cleanup_old_containers is called at most once in the process; once
\* the latch is set it stays set and no sweep starts.
C19_SweepAtMostOnce ==
    /\ [](sweeps <= 1)
    /\ [](cleanup_done => sweeps = 1 /\ jlist = <<>>)
    /\ [][cleanup_done => cleanup_done' /\ sweeps' = sweeps]_vars

\* Three chat starts have sent their welcome, the second and the third
\* while the first was still in its construction, and one sweep ran.
C19_Witness ==
    /\ sweeps = 1
    /\ \A t \in live : sent[t] # <<>> /\ sent[t][1] = "welcome"
    /\ pc[1] \in ConstructPcs

\* The names of the lines whose status is Exited or Dead.
StoppedNames(lines) ==
    {l[1] : l \in {m \in lines : Contains("Exited", m[2]) \/ Contains("Dead", m[2])}}

\* C20: during a sweep a force-remove has been issued for exactly the visited
\* lines whose status is Exited or Dead, and when the loop is through every
\* listed line was visited; no container that is running has had a
\* force-remove issued by the sweep.
C20_SweepRemovesStoppedOnly ==
    (\E t \in Tasks : pc[t] = "j_sweep") =>
        /\ swept.rm = StoppedNames(swept.visited)
        /\ swept.visited \cup {jlist[i] : i \in 1..Len(jlist)} = swept.listed
        /\ jlist = <<>> => swept.rm = StoppedNames(swept.listed)
        /\ swept.rm \cap running = {}
        /\ \A l \in swept.visited : FirstWord(l[2]) = "Up" => l[1] \in running

\* A sweep went through a listing that held a running container of another
\* session and a dead one.
C20_Witness ==
    /\ \E t \in Tasks : pc[t] = "j_sweep"
    /\ jlist = <<>>
    /\ \E l \in swept.listed : FirstWord(l[2]) = "Up"
    /\ \E l \in swept.listed : l[2] = "Dead" /\ l[1] \in swept.rm

----------------------------------------------------------------------------
\* A removal that fails inside the sweep.

\* The names of the lines the loop has still to visit.
Pending == {jlist[i][1] : i \in 1..Len(jlist)}

\* C21: when the force-remove of a stopped container fails during the sweep,
\* the loop goes on with the next line: every stopped container of the
\* listing has had its removal attempted or is still to be visited, and at
\* the end of the loop all of them have been attempted.
C21_FailedRemovalGoesOn ==
    /\ []((swept.failed # {} /\ \E t \in Tasks : pc[t] = "j_sweep") =>
             /\ StoppedNames(swept.listed) \subseteq swept.rm \cup Pending
             /\ jlist = <<>> => swept.rm = StoppedNames(swept.listed))
    /\ [][\A t \in Tasks :
             (pc[t] = "j_sweep" /\ jlist # <<>>) =>
                 pc'[t] = "j_sweep" /\ jlist' = Tail(jlist)]_vars

\* A sweep is through its listing after two of its removals failed: the
\* second was attempted after the first had failed.
C21_Witness ==
    /\ \E t \in Tasks : pc[t] = "j_sweep"
    /\ jlist = <<>>
    /\ Cardinality(swept.failed) >= 2

----------------------------------------------------------------------------
\* Failures of the janitor and of the provisioning's runtime commands.

\* The positions at which a runtime command of the provisioning is issued.
CommandPcs == {"s_reuse", "s_rmstale", "s_rm", "s_final"}

\* The positions the construction can be at after the command issued at p.
AfterCommand(p) ==
    CASE p = "s_reuse" -> {"s_rmstale", "s_rm"}
      [] p = "s_rmstale" -> {"s_rm"}
      [] p = "s_rm" -> {"s_final"}
      [] OTHER -> {"a_stdio"}

StartKinds == {"chat_start", "foreign_start"}

\* C22: whether the janitor's listing or a removal of it fails, and whether
\* the reuse check, a force-remove or the final check of the provisioning
\* fails, no exception leaves on_chat_start or get_or_create_agent there: a
\* chat start that is past the janitor has sent its welcome first, and every
\* step taken at a runtime command of the provisioning leads to the next
\* command and at last to the launch, with no call ended and no message sent.
C22_RuntimeFailuresSwallowed ==
    /\ [](\A t \in Tasks :
             (Kind(t) \in StartKinds /\ pc[t] \notin {"idle", "j_sweep"}) =>
                 sent[t] # <<>> /\ sent[t][1] = "welcome")
    /\ [][\A t \in Tasks :
             (Kind(t) \in StartKinds /\ pc[t] \in {"idle", "j_sweep"}) =>
                 pc'[t] \in {pc[t], "j_sweep", "h_call"}]_vars
    /\ [][\A t \in Tasks :
             (pc[t] \in CommandPcs /\ pc'[t] # pc[t]) =>
                 /\ pc'[t] \in AfterCommand(pc[t])
                 /\ ret'[t] = ret[t]
                 /\ sent'[t] = sent[t]
                 /\ initializing']_vars

\* A construction is about to launch although its reuse check raised (one
\* force-remove only, nothing reused), its force-remove failed (the stopped
\* container of that name is still there) and its final check raised.
C22_Witness ==
    \E t \in Tasks :
        /\ pc[t] = "a_stdio"
        /\ loc[t].race = "error"
        /\ loc[t].existing # NoName
        /\ ~loc[t].reused
        /\ loc[t].rmCalls = 1
        /\ loc[t].name \in exited

----------------------------------------------------------------------------
\* The end of the session.

\* Nothing of the session is left: no transport or control-session context
\* is entered, and no container the session launched is running.
Released == stdioOpen = {} /\ sessOpen = {} /\ running \ theirs = {}

\* C23: once the session's UI connection has ended, its connection is torn
\* down and its container force-removed: at last no context of the session
\* is open and no container of the session is running.
C23_ReleasedAfterChatEnd == ended ~> Released

----------------------------------------------------------------------------
\* What a session holds in the runtime and in the process.

\* The running containers the session launched.
OwnRunning == running \ theirs

\* C24: at any time at most one container launched for the session is
\* running, and it is the one whose name the session records; and at most
\* one transport context and one control-session context of the session are
\* entered.
C24_AtMostOneHandleAndConnection ==
    /\ Cardinality(OwnRunning) <= 1
    /\ OwnRunning \subseteq {mcp_container_name}
    /\ Cardinality(stdioOpen) <= 1
    /\ Cardinality(sessOpen) <= 1

----------------------------------------------------------------------------
\* What the user is told when a construction fails.

\* str(e) of the TimeoutError of the wait loop.
TimeoutText ==
    "Agent initialization timed out after waiting for another initialization to complete"

\* str(e) of the exceptions a construction is followed for: one whose text
\* holds "closed", and one that the handlers treat like any other text.
InitErrorText(closed) ==
    IF closed THEN "Connection closed"
    ELSE "ExpiredTokenException: the security token is expired"

InitErrorTexts == {TimeoutText, InitErrorText(TRUE), InitErrorText(FALSE)}

\* The content of the message the handlers send for a failed
\* get_or_create_agent call (the leading warning sign of on_chat_start's
\* message is left out).
InitFailureContent(kind, error_msg) ==
    CASE kind = "init_error" ->
           "Error initializing connection: " \o error_msg
               \o "\n\nYou can still try asking a question - the connection will be retried."
      [] kind = "init_failed" ->
           "Error: Failed to initialize connection. " \o error_msg
      [] OTHER ->
           "Error: Connection failed. " \o error_msg
               \o "\n\nPlease try refreshing the page."

\* What the except block of the streaming part sends for each of these texts.
ClassifiedFor == [error_msg \in InitErrorTexts |->
                     ErrorMessage(Classify(error_msg), error_msg)]

\* The text of the exception that ended task t's last call.
FailureText(t) ==
    IF ret[t].path = "timeout" THEN TimeoutText ELSE InitErrorText(ret[t].closed)

\* The handler of t ended because get_or_create_agent raised.
InitFailed(t) == pc[t] = "done" /\ ret[t].path \in {"failure", "timeout"}

\* C25: when get_or_create_agent raises in on_chat_start or in on_message,
\* the message the user gets is the one the error classification gives for
\* the text of the exception (the remediation message of its kind).
C25_InitFailureClassified ==
    \A t \in Tasks :
        InitFailed(t) =>
            InitFailureContent(sent[t][Len(sent[t])], FailureText(t))
                = ClassifiedFor[FailureText(t)]

----------------------------------------------------------------------------
\* A broken connection under a registered Agent.

\* A handler that is through met a failure with "closed" in its text while
\* it streamed from the Agent that is registered.
BrokenDetected ==
    /\ agent # 0
    /\ \E u \in Tasks :
          /\ Ended(u)
          /\ StreamRaised(u)
          /\ ClosedText(stream[u].err[1])
          /\ ret[u].agent = agent

\* C26: once a broken connection has been detected for the registered Agent,
\* the Agent is invalidated: the next get_or_create_agent call does not come
\* back on the fast path with that Agent but starts a new construction.
C26_BrokenAgentNotReturned ==
    [][\A t \in Tasks :
          (Calls(t) /\ BrokenDetected)
              => /\ ret'[t].path # "fast"
                 /\ nConstr' = nConstr + 1]_vars

----------------------------------------------------------------------------
\* The two layers of the connection.

\* C27: when no construction is running, the transport contexts that are
\* entered are those whose control-session context is entered, and the
\* session holds a transport entry exactly when it holds a control-session
\* entry.
C27_LayersInStep ==
    Constructing = {} =>
        /\ stdioOpen = sessOpen
        /\ stdio_ctx = 0 <=> session_ctx = 0

----------------------------------------------------------------------------
\* A recorded container that is not running.

\* The construction of t found its recorded name not running: the reuse
\* check came back without the name, so that both force-removes were issued
\* (the stale one and the one of the chosen name; one when the second is
\* still to come).
StalePath(t) ==
    /\ loc[t].existing # NoName
    /\ ~loc[t].reused
    /\ \/ pc[t] = "s_rm" /\ loc[t].rmCalls = 1
       \/ pc[t] \in {"s_final"} \cup NamedPcs /\ loc[t].rmCalls = 2

\* The base name with one timestamp appended.
Disambiguated(name) ==
    Len(name) = Len(BaseName) + 1 /\ SubSeq(name, 1, Len(BaseName)) = BaseName

\* C28: when the reuse check does not report the recorded name running, a
\* force-remove of that name is issued (it takes effect or fails) and the
\* construction goes on with the base name; the name launched is the base
\* name or the base name with a suffix, never a stale recorded name other
\* than the base name, and it is the name the session records by the time
\* the transport is opened.
C28_StaleNameRemovedThenFresh ==
    /\ [][\A t \in Tasks :
             (pc[t] = "s_rmstale" /\ pc'[t] # pc[t]) =>
                 /\ pc'[t] = "s_rm"
                 /\ loc'[t].rmCalls = loc[t].rmCalls + 1
                 /\ loc'[t].name = BaseName
                 /\ \/ UNCHANGED <<running, exited, halted>>
                    \/ /\ running' = RmRunning(loc[t].existing)
                       /\ exited' = RmExited(loc[t].existing)
                       /\ halted' = RmHalted(loc[t].existing)]_vars
    /\ [](\A t \in Tasks :
             (StalePath(t) /\ pc[t] \in NamedPcs) =>
                 /\ loc[t].name = BaseName \/ Disambiguated(loc[t].name)
                 /\ loc[t].existing # BaseName => loc[t].name # loc[t].existing
                 /\ mcp_container_name = loc[t].name)

\* A construction is about to open its transport under a new suffixed name,
\* after it found an older suffixed name recorded and not running.
C28_Witness ==
    \E t \in Tasks :
        /\ StalePath(t)
        /\ pc[t] = "a_stdio"
        /\ Disambiguated(loc[t].existing)
        /\ Disambiguated(loc[t].name)

----------------------------------------------------------------------------
\* The cleanup of a failed handshake.

HandshakeFailed(t) == ret[t].path = "failure" /\ ret[t].step = "handshake"

AllUndone == {"session_exit", "stdio_exit", "rm"}

\* C29: after session.initialize() raised, the control-session context is
\* exited first, then the transport context, then the recorded container is
\* force-removed, each step being taken whether or not the one before it
\* raised; the exception then leaves get_or_create_agent with the flag
\* cleared, and the construction registers no Agent and no connection entry.
C29_HandshakeCleanup ==
    /\ [](\A t \in Tasks :
             /\ pc[t] = "a_undo1" => loc[t].undo = {"session_exit"}
             /\ pc[t] = "a_undo2" => loc[t].undo = {"session_exit", "stdio_exit"}
             /\ HandshakeFailed(t) =>
                   ret[t].undo = AllUndone /\ ~ret[t].flag /\ ret[t].agent = 0)
    /\ [][\A t \in Tasks :
             /\ (pc[t] = "a_init" /\ pc'[t] # pc[t]) => pc'[t] \in {"a_tools", "a_undo1"}
             /\ (pc[t] = "a_undo1" /\ pc'[t] # pc[t]) => pc'[t] = "a_undo2"
             /\ (pc[t] = "a_undo2" /\ pc'[t] # pc[t]) =>
                   /\ HandshakeFailed(t)'
                   /\ ret'[t].cid = loc[t].cid
                   /\ agent' \in {agent, 0}
                   /\ stdio_ctx' \in {stdio_ctx, 0}
                   /\ session_ctx' \in {session_ctx, 0}]_vars

\* A handshake failure has left get_or_create_agent after all three undo
\* steps, although both context exits raised and the removal failed: both
\* contexts are still entered and the recorded container is still running.
C29_Witness ==
    \E t \in Tasks :
        /\ HandshakeFailed(t)
        /\ pc[t] = "done"
        /\ ret[t].undo = AllUndone
        /\ ret[t].cid \in stdioOpen \cap sessOpen
        /\ mcp_container_name \in running

----------------------------------------------------------------------------
\* Sessions in the shared namespace of container names.

\* C30: a running container of another live session stays running unless it
\* stops by itself: no step of this session's construction removes it,
\* whatever the other session's id, also when the two ids have the same
\* first SidLen characters.
C30_SessionsIsolated ==
    [][\A n \in theirs : n \notin running' => n \in exited']_vars

====
